---- MODULE Spec2Model ----
(***************************************************************************)
(* MyLog: a leveled logging facade (src/logger.go).  A Log owns six        *)
(* log.Logger handles (stdVar, infoVar, warningVar, debugVar, errorVar,    *)
(* panicVar), four mode flags and a line buffer.                           *)
(*                                                                         *)
(* Strings are sequences of tokens: a token is one character or one        *)
(* indivisible piece of text (a prefix literal, a format verb, an escape   *)
(* sequence).  Concatenation is \o.                                        *)
(*                                                                         *)
(* A destination (io.Writer) is owned by the host, not by the Log: the     *)
(* model records the Write calls an operation makes on it (writes).        *)
(***************************************************************************)
EXTENDS Integers, Sequences, FiniteSets, TLC

\* ------------------------------------------------------------------ bounds

\* Longest line buffer the model lets the host build.
MaxBuf == 2

\* ------------------------------------------------------- library constants

\* Go's log package flag bits, as used at logger.go:38 and logger.go:79.
Ldate == 1
Ltime == 2
Lmsgprefix == 64

\* logger.go:38  stdFlags := log.Ldate | log.Ltime | log.Lmsgprefix
stdFlags == Ldate + Ltime + Lmsgprefix

\* flags & bit # 0, for a single-bit mask
HasFlag(flags, bit) == (flags \div bit) % 2 = 1

\* ------------------------------------------------------------------ inputs

\* os.Stderr is the process's own standard-error stream; the host passes
\* the writers (A, B) to Init and re-targets to (C, D) with SetOutput.
OsStderr == "os.Stderr"
InitPairs == { <<"A", "B">> }
OutputPairs == { <<"C", "D">> }

\* Flag words the host passes to SetFlags (log.LstdFlags = Ldate | Ltime).
FlagInputs == { Ldate + Ltime }

\* (format, v...) pairs the host logs: "w" and "x=%d", 1.
Msgs == { [format |-> <<"w">>, v |-> <<>>],
          [format |-> <<"x", "=", "%d">>, v |-> <<1>>] }

\* ------------------------------------------------------------ pure helpers

\* Escape sequences of github.com/fatih/color (color output enabled).
EscRed == "ESC[31m"
EscGreen == "ESC[32m"
EscYellow == "ESC[33m"
EscReset == "ESC[0m"
Escapes == { EscRed, EscGreen, EscYellow, EscReset }

\* logger.go:15-17: color.New(attr).SprintFunc() wraps its argument.
red(s) == <<EscRed>> \o s \o <<EscReset>>
yellow(s) == <<EscYellow>> \o s \o <<EscReset>>
green(s) == <<EscGreen>> \o s \o <<EscReset>>

\* strconv of a small integer argument
Digits == <<"0", "1", "2", "3", "4", "5", "6", "7", "8", "9">>
Itoa(n) == Digits[n + 1]

\* fmt.Sprintf(format, v...): every %d verb takes the next argument; a verb
\* with no argument left prints %!d(MISSING); arguments left over are
\* reported in a trailing %!(EXTRA ...).
RECURSIVE ExtraFrom(_, _)
ExtraFrom(v, i) ==
    IF i > Len(v) THEN <<>>
    ELSE <<"int=", Itoa(v[i])>>
         \o (IF i < Len(v) THEN <<", ">> ELSE <<>>)
         \o ExtraFrom(v, i + 1)

RECURSIVE SprintfFrom(_, _, _)
SprintfFrom(format, v, i) ==
    IF format = <<>>
    THEN IF i <= Len(v)
         THEN <<"%!(EXTRA ">> \o ExtraFrom(v, i) \o <<")">>
         ELSE <<>>
    ELSE IF Head(format) = "%d"
         THEN (IF i <= Len(v) THEN <<Itoa(v[i])>> ELSE <<"%!d(MISSING)">>)
              \o SprintfFrom(Tail(format), v, i + 1)
         ELSE <<Head(format)>> \o SprintfFrom(Tail(format), v, i)

Sprintf(format, v) == SprintfFrom(format, v, 1)

\* strings.Join(elems, sep)
RECURSIVE Join(_, _)
Join(elems, sep) ==
    IF elems = <<>> THEN <<>>
    ELSE IF Len(elems) = 1 THEN elems[1]
    ELSE elems[1] \o sep \o Join(Tail(elems), sep)

\* log.New(out, prefix, flag)
New(out, prefix, flag) == [out |-> out, prefix |-> prefix, flag |-> flag]

\* (*log.Logger).Printf(format, v...): one Write on the logger's destination
\* of header + message, with a newline added when the message has none.
\* DATE and TIME stand for the rendered date and time.
Printf(name, lg, format, v) ==
    LET s == Sprintf(format, v)
        header == (IF HasFlag(lg.flag, Lmsgprefix) THEN <<>> ELSE lg.prefix)
                  \o (IF HasFlag(lg.flag, Ldate) THEN <<"DATE", " ">> ELSE <<>>)
                  \o (IF HasFlag(lg.flag, Ltime) THEN <<"TIME", " ">> ELSE <<>>)
                  \o (IF HasFlag(lg.flag, Lmsgprefix) THEN lg.prefix ELSE <<>>)
        nl == IF s = <<>> \/ s[Len(s)] # "\n" THEN <<"\n">> ELSE <<>>
    IN  [logger |-> name, dest |-> lg.out, line |-> header \o s \o nl]

\* ------------------------------------------------------------------- state

VARIABLES
    \* type Log struct (logger.go:20-32)
    stdVar, infoVar, debugVar, warningVar, errorVar, panicVar,
    flagEnableBuffer, bufferData, flagVerbose, flagDebug, flagColor,
    \* what the host observes of the last call
    lastOp,      \* name of the last method called
    lastArg,     \* its flag argument (a setter's b, a mode call's f), or NoArg
    writes,      \* the Write calls it made, in order
    ret,         \* the value the last GetBuffer call returned, kept while
                 \* it is current (retFresh), "" otherwise
    \* history kept by the observer
    curOut,      \* stdOut of the last Init / SetOutput
    curErr,      \* stdErr of the last Init / SetOutput
    hist,        \* payloads handed to the buffer while bufferEnabled was set
    sinceInit,   \* the same, since the last Init
    retFresh,    \* GetBuffer was called and nothing was buffered since
    \* a second Log driven by the same calls, and what its last call produced
    bitLog,      \* the bit-register revision of Log (part_000, part_001)
    bitOut,
    twin,        \* another logger.go Log, given different SetColor calls
    twinOut,
    \* goroutines calling into the one Log at the same time
    race

loggers == <<stdVar, infoVar, debugVar, warningVar, errorVar, panicVar>>
modeFlags == <<flagEnableBuffer, flagVerbose, flagDebug, flagColor>>
observer == <<curOut, curErr, hist, sinceInit, retFresh>>
aux == <<bitLog, bitOut, twin, twinOut, race>>
vars == <<loggers, modeFlags, bufferData, lastOp, lastArg, writes, ret, observer,
          aux>>

\* lastArg of a call that takes no flag argument
NoArg == "-"

\* An aux variable of a specification that does not use it
Unused == "unused"

\* ------------------------------------------------------- the six handles

\* The six handles as one value, so that setters compose.
Handles == [stdVar |-> stdVar, infoVar |-> infoVar, warningVar |-> warningVar,
            debugVar |-> debugVar, errorVar |-> errorVar, panicVar |-> panicVar]

Assign(h) ==
    /\ stdVar' = h.stdVar
    /\ infoVar' = h.infoVar
    /\ warningVar' = h.warningVar
    /\ debugVar' = h.debugVar
    /\ errorVar' = h.errorVar
    /\ panicVar' = h.panicVar

\* logger.go:40-45: the handles Init builds.
initHandles(stdOut, stdErr) ==
    [stdVar     |-> New(stdOut, <<"       ">>, stdFlags),
     infoVar    |-> New(stdOut, <<"INFO:  ">>, stdFlags),
     warningVar |-> New(stdOut, <<"WARN:  ">>, stdFlags),
     debugVar   |-> New(stdErr, <<"DEBUG: ">>, stdFlags),
     errorVar   |-> New(stdErr, <<"ERROR: ">>, stdFlags),
     panicVar   |-> New(OsStderr, <<"PANIC: ">>, stdFlags)]

\* Mutant: the panic handle is left out of SetFlags.
withFlags_SkipPanic(h, f) ==
    [stdVar     |-> [h.stdVar EXCEPT !.flag = f],
     infoVar    |-> [h.infoVar EXCEPT !.flag = f],
     warningVar |-> [h.warningVar EXCEPT !.flag = f],
     debugVar   |-> [h.debugVar EXCEPT !.flag = f],
     errorVar   |-> [h.errorVar EXCEPT !.flag = f],
     panicVar   |-> h.panicVar]

\* logger.go:50-57: SetFlags on every handle.
withFlags(h, f) ==
    [stdVar     |-> [h.stdVar EXCEPT !.flag = f],
     infoVar    |-> [h.infoVar EXCEPT !.flag = f],
     warningVar |-> [h.warningVar EXCEPT !.flag = f],
     debugVar   |-> [h.debugVar EXCEPT !.flag = f],
     errorVar   |-> [h.errorVar EXCEPT !.flag = f],
     panicVar   |-> [h.panicVar EXCEPT !.flag = f]]

\* Mutant: the handle's current prefix is wrapped, not the literal.
withColorPrefix_Wrap(h, color) ==
    IF color
    THEN [stdVar     |-> h.stdVar,
          infoVar    |-> [h.infoVar EXCEPT !.prefix = green(@)],
          warningVar |-> [h.warningVar EXCEPT !.prefix = yellow(@)],
          debugVar   |-> [h.debugVar EXCEPT !.prefix = red(@)],
          errorVar   |-> [h.errorVar EXCEPT !.prefix = red(@)],
          panicVar   |-> [h.panicVar EXCEPT !.prefix = red(@)]]
    ELSE h

\* Mutant: with flagColor clear the plain prefixes are put back.
withColorPrefix_Revert(h, color) ==
    IF color
    THEN [stdVar     |-> h.stdVar,
          infoVar    |-> [h.infoVar EXCEPT !.prefix = green(<<"INFO:  ">>)],
          warningVar |-> [h.warningVar EXCEPT !.prefix = yellow(<<"WARN:  ">>)],
          debugVar   |-> [h.debugVar EXCEPT !.prefix = red(<<"DEBUG: ">>)],
          errorVar   |-> [h.errorVar EXCEPT !.prefix = red(<<"ERROR: ">>)],
          panicVar   |-> [h.panicVar EXCEPT !.prefix = red(<<"PANIC: ">>)]]
    ELSE [stdVar     |-> h.stdVar,
          infoVar    |-> [h.infoVar EXCEPT !.prefix = <<"INFO:  ">>],
          warningVar |-> [h.warningVar EXCEPT !.prefix = <<"WARN:  ">>],
          debugVar   |-> [h.debugVar EXCEPT !.prefix = <<"DEBUG: ">>],
          errorVar   |-> [h.errorVar EXCEPT !.prefix = <<"ERROR: ">>],
          panicVar   |-> [h.panicVar EXCEPT !.prefix = <<"PANIC: ">>]]

\* logger.go:59-67: SetPrefix on five handles when flagColor is set.
withColorPrefix(h, color) ==
    IF color
    THEN [stdVar     |-> h.stdVar,
          infoVar    |-> [h.infoVar EXCEPT !.prefix = green(<<"INFO:  ">>)],
          warningVar |-> [h.warningVar EXCEPT !.prefix = yellow(<<"WARN:  ">>)],
          debugVar   |-> [h.debugVar EXCEPT !.prefix = red(<<"DEBUG: ">>)],
          errorVar   |-> [h.errorVar EXCEPT !.prefix = red(<<"ERROR: ">>)],
          panicVar   |-> [h.panicVar EXCEPT !.prefix = red(<<"PANIC: ">>)]]
    ELSE h

\* Mutant: the warning handle is re-targeted to stdErr.
withOutput_WarnToErr(h, stdOut, stdErr) ==
    [stdVar     |-> [h.stdVar EXCEPT !.out = stdOut],
     infoVar    |-> [h.infoVar EXCEPT !.out = stdOut],
     warningVar |-> [h.warningVar EXCEPT !.out = stdErr],
     debugVar   |-> [h.debugVar EXCEPT !.out = stdErr],
     errorVar   |-> [h.errorVar EXCEPT !.out = stdErr],
     panicVar   |-> [h.panicVar EXCEPT !.out = stdErr]]

\* logger.go:69-76: SetOutput on every handle.
withOutput(h, stdOut, stdErr) ==
    [stdVar     |-> [h.stdVar EXCEPT !.out = stdOut],
     infoVar    |-> [h.infoVar EXCEPT !.out = stdOut],
     warningVar |-> [h.warningVar EXCEPT !.out = stdOut],
     debugVar   |-> [h.debugVar EXCEPT !.out = stdErr],
     errorVar   |-> [h.errorVar EXCEPT !.out = stdErr],
     panicVar   |-> [h.panicVar EXCEPT !.out = stdErr]]

\* ----------------------------------------------------------- the observer

\* The payload the buffer is expected to receive from a call that passed
\* its gate (pass), made with the message m.
Expected(pass, m) ==
    IF pass /\ flagEnableBuffer THEN <<Sprintf(m.format, m.v)>> ELSE <<>>

\* Bookkeeping of a call that is neither Init, SetOutput nor GetBuffer.
Observe(name, payloads) ==
    /\ lastOp' = name
    /\ hist' = hist \o payloads
    /\ sinceInit' = sinceInit \o payloads
    /\ retFresh' = (retFresh /\ payloads = <<>>)
    /\ ret' = IF payloads = <<>> THEN ret ELSE <<>>
    /\ lastArg' = NoArg
    /\ UNCHANGED <<curOut, curErr>>

\* Bookkeeping of a flag setter called with b.
ObserveSet(name, b) ==
    /\ lastOp' = name
    /\ lastArg' = b
    /\ UNCHANGED <<ret, curOut, curErr, hist, sinceInit, retFresh>>

\* A call that writes nothing.
Silent == writes' = <<>>

\* The buffer has room for one more line (bound of the model).
BufRoom == ~flagEnableBuffer \/ Len(bufferData) < MaxBuf

\* -------------------------------------------------------------- setters

\* The state after  var l Log; l.Init(stdOut, stdErr).
Init ==
    \E p \in InitPairs :
        /\ stdVar = initHandles(p[1], p[2]).stdVar
        /\ infoVar = initHandles(p[1], p[2]).infoVar
        /\ warningVar = initHandles(p[1], p[2]).warningVar
        /\ debugVar = initHandles(p[1], p[2]).debugVar
        /\ errorVar = initHandles(p[1], p[2]).errorVar
        /\ panicVar = initHandles(p[1], p[2]).panicVar
        /\ flagEnableBuffer = FALSE
        /\ flagVerbose = FALSE
        /\ flagDebug = FALSE
        /\ flagColor = FALSE
        /\ bufferData = <<>>
        /\ lastOp = "Init"
        /\ lastArg = NoArg
        /\ writes = <<>>
        /\ ret = <<>>
        /\ curOut = p[1]
        /\ curErr = p[2]
        /\ hist = <<>>
        /\ sinceInit = <<>>
        /\ retFresh = FALSE

\* logger.go:37-48: Init called on a Log that is already in use.
LogInit(stdOut, stdErr) ==
    /\ Assign(initHandles(stdOut, stdErr))
    /\ flagEnableBuffer' = FALSE
    /\ UNCHANGED <<bufferData, flagVerbose, flagDebug, flagColor>>
    /\ Silent
    /\ lastOp' = "Init"
    /\ lastArg' = NoArg
    /\ curOut' = stdOut
    /\ curErr' = stdErr
    /\ sinceInit' = <<>>
    /\ UNCHANGED <<ret, hist, retFresh>>

\* logger.go:50-57
SetFlags(f) ==
    /\ Assign(withFlags(Handles, f))
    /\ Silent
    /\ Observe("SetFlags", <<>>)
    /\ UNCHANGED <<modeFlags, bufferData>>

\* logger.go:59-67
SetColorPrefix ==
    /\ Assign(withColorPrefix(Handles, flagColor))
    /\ Silent
    /\ Observe("SetColorPrefix", <<>>)
    /\ UNCHANGED <<modeFlags, bufferData>>

\* logger.go:69-76
SetOutput(stdOut, stdErr) ==
    /\ Assign(withOutput(Handles, stdOut, stdErr))
    /\ Silent
    /\ lastOp' = "SetOutput"
    /\ lastArg' = NoArg
    /\ curOut' = stdOut
    /\ curErr' = stdErr
    /\ UNCHANGED <<modeFlags, bufferData, ret, hist, sinceInit, retFresh>>

\* Mutant: SetInteractive forgets SetColorPrefix.
SetInteractive_NoPrefix ==
    /\ Assign(withFlags(Handles, Lmsgprefix))
    /\ Silent
    /\ Observe("SetInteractive", <<>>)
    /\ UNCHANGED <<modeFlags, bufferData>>

\* logger.go:78-81
SetInteractive ==
    /\ Assign(withColorPrefix(withFlags(Handles, Lmsgprefix), flagColor))
    /\ Silent
    /\ Observe("SetInteractive", <<>>)
    /\ UNCHANGED <<modeFlags, bufferData>>

\* logger.go:83-85
EnableBuffer ==
    /\ flagEnableBuffer' = TRUE
    /\ Silent
    /\ ObserveSet("EnableBuffer", NoArg)
    /\ UNCHANGED <<loggers, flagVerbose, flagDebug, flagColor, bufferData>>

\* Mutant: DisableBuffer also drops the buffered lines.
DisableBuffer_Clears ==
    /\ flagEnableBuffer' = FALSE
    /\ bufferData' = <<>>
    /\ Silent
    /\ ObserveSet("DisableBuffer", NoArg)
    /\ UNCHANGED <<loggers, flagVerbose, flagDebug, flagColor>>

\* logger.go:87-89
DisableBuffer ==
    /\ flagEnableBuffer' = FALSE
    /\ Silent
    /\ ObserveSet("DisableBuffer", NoArg)
    /\ UNCHANGED <<loggers, flagVerbose, flagDebug, flagColor, bufferData>>

\* logger.go:91-93
SetVerbose(b) ==
    /\ flagVerbose' = b
    /\ Silent
    /\ ObserveSet("SetVerbose", b)
    /\ UNCHANGED <<loggers, flagEnableBuffer, flagDebug, flagColor, bufferData>>

\* Mutant: SetDebug writes the verbose flag.
SetDebug_WrongFlag(b) ==
    /\ flagVerbose' = b
    /\ Silent
    /\ ObserveSet("SetDebug", b)
    /\ UNCHANGED <<loggers, flagEnableBuffer, flagDebug, flagColor, bufferData>>

\* logger.go:95-97
SetDebug(b) ==
    /\ flagDebug' = b
    /\ Silent
    /\ ObserveSet("SetDebug", b)
    /\ UNCHANGED <<loggers, flagEnableBuffer, flagVerbose, flagColor, bufferData>>

\* logger.go:99-101
SetColor(b) ==
    /\ flagColor' = b
    /\ Silent
    /\ ObserveSet("SetColor", b)
    /\ UNCHANGED <<loggers, flagEnableBuffer, flagVerbose, flagDebug, bufferData>>

\* ------------------------------------------------------- buffer handling

\* Mutant: the new line is put in front of the buffer.
AddBuffer_Prepend(format, v) ==
    bufferData' = IF flagEnableBuffer
                  THEN <<Sprintf(format, v)>> \o bufferData
                  ELSE bufferData

\* logger.go:104-108, as called by the emission primitives.
AddBuffer(format, v) ==
    bufferData' = IF flagEnableBuffer
                  THEN Append(bufferData, Sprintf(format, v))
                  ELSE bufferData

\* logger.go:104-108: AddBuffer is exported; the host may call it directly.
CallAddBuffer(m) ==
    /\ BufRoom
    /\ AddBuffer(m.format, m.v)
    /\ Silent
    /\ Observe("AddBuffer", Expected(TRUE, m))
    /\ UNCHANGED <<loggers, modeFlags>>

\* Mutant: GetBuffer hands the lines over and empties the buffer.
GetBuffer_Clears ==
    /\ ret' = Join(bufferData, <<"\n">>)
    /\ bufferData' = <<>>
    /\ Silent
    /\ lastOp' = "GetBuffer"
    /\ lastArg' = NoArg
    /\ retFresh' = TRUE
    /\ UNCHANGED <<loggers, modeFlags, curOut, curErr, hist, sinceInit>>

\* logger.go:110-112
GetBuffer ==
    /\ ret' = Join(bufferData, <<"\n">>)
    /\ Silent
    /\ lastOp' = "GetBuffer"
    /\ lastArg' = NoArg
    /\ retFresh' = TRUE
    /\ UNCHANGED <<loggers, modeFlags, bufferData, curOut, curErr, hist, sinceInit>>

\* --------------------------------------------------- intrinsic functions

\* logger.go:115-118
log(format, v) ==
    /\ writes' = <<Printf("stdVar", stdVar, format, v)>>
    /\ AddBuffer(format, v)

\* Mutant: the colorized template is what gets buffered.
info_ColorBuffered(format, v) ==
    /\ writes' = <<Printf("infoVar", infoVar, green(format), v)>>
    /\ AddBuffer(green(format), v)

\* logger.go:120-123
info(format, v) ==
    /\ writes' = <<Printf("infoVar", infoVar, green(format), v)>>
    /\ AddBuffer(format, v)

\* logger.go:125-128
warn(format, v) ==
    /\ writes' = <<Printf("warningVar", warningVar, yellow(format), v)>>
    /\ AddBuffer(format, v)

\* logger.go:130-133
debug(format, v) ==
    /\ writes' = <<Printf("debugVar", debugVar, red(format), v)>>
    /\ AddBuffer(format, v)

\* logger.go:135-138
error(format, v) ==
    /\ writes' = <<Printf("errorVar", errorVar, red(format), v)>>
    /\ AddBuffer(format, v)

\* A gated call whose flag is clear: nothing happens.
Dropped == Silent /\ UNCHANGED bufferData

\* ---------------------------------------------------------- user functions

\* Mutant: Panic buffers its message like the other primitives.
Panic_Buffered(m) ==
    /\ BufRoom
    /\ writes' = <<Printf("panicVar", panicVar, red(m.format), m.v)>>
    /\ AddBuffer(m.format, m.v)
    /\ Observe("Panic", <<>>)
    /\ UNCHANGED <<loggers, modeFlags>>

\* logger.go:141-143
Panic(m) ==
    /\ writes' = <<Printf("panicVar", panicVar, red(m.format), m.v)>>
    /\ Observe("Panic", <<>>)
    /\ UNCHANGED <<loggers, modeFlags, bufferData>>

\* logger.go:145-147
Standard(m) ==
    /\ BufRoom
    /\ log(m.format, m.v)
    /\ Observe("Standard", Expected(TRUE, m))
    /\ UNCHANGED <<loggers, modeFlags>>

\* logger.go:149-151
StandardInfo(m) ==
    /\ BufRoom
    /\ info(m.format, m.v)
    /\ Observe("StandardInfo", Expected(TRUE, m))
    /\ UNCHANGED <<loggers, modeFlags>>

\* Mutant: Verbose forgets its gate.
Verbose_NoGate(m) ==
    /\ BufRoom
    /\ log(m.format, m.v)
    /\ Observe("Verbose", Expected(flagVerbose, m))
    /\ UNCHANGED <<loggers, modeFlags>>

\* logger.go:153-157
Verbose(m) ==
    /\ BufRoom
    /\ IF flagVerbose THEN log(m.format, m.v) ELSE Dropped
    /\ Observe("Verbose", Expected(flagVerbose, m))
    /\ UNCHANGED <<loggers, modeFlags>>

\* logger.go:159-163
VerboseInfo(m) ==
    /\ BufRoom
    /\ IF flagVerbose THEN info(m.format, m.v) ELSE Dropped
    /\ Observe("VerboseInfo", Expected(flagVerbose, m))
    /\ UNCHANGED <<loggers, modeFlags>>

\* logger.go:165-169
Debug(m) ==
    /\ BufRoom
    /\ IF flagDebug THEN debug(m.format, m.v) ELSE Dropped
    /\ Observe("Debug", Expected(flagDebug, m))
    /\ UNCHANGED <<loggers, modeFlags>>

\* Mutant: Warn is gated by the verbose flag.
Warn_Gated(m) ==
    /\ BufRoom
    /\ IF flagVerbose THEN warn(m.format, m.v) ELSE Dropped
    /\ Observe("Warn", Expected(TRUE, m))
    /\ UNCHANGED <<loggers, modeFlags>>

\* logger.go:171-173
Warn(m) ==
    /\ BufRoom
    /\ warn(m.format, m.v)
    /\ Observe("Warn", Expected(TRUE, m))
    /\ UNCHANGED <<loggers, modeFlags>>

\* logger.go:175-177
Error(m) ==
    /\ BufRoom
    /\ error(m.format, m.v)
    /\ Observe("Error", Expected(TRUE, m))
    /\ UNCHANGED <<loggers, modeFlags>>

\* ------------------------------------------------------------ the program

\* The logger.go Log alone: no second Log, no concurrent callers.
AuxIdle ==
    /\ bitLog = Unused
    /\ bitOut = Unused
    /\ twin = Unused
    /\ twinOut = Unused
    /\ race = Unused

Solo == UNCHANGED aux

Next ==
    \/ \E p \in InitPairs : LogInit(p[1], p[2]) /\ Solo
    \/ \E f \in FlagInputs : SetFlags(f) /\ Solo
    \/ SetColorPrefix /\ Solo
    \/ \E p \in OutputPairs : SetOutput(p[1], p[2]) /\ Solo
    \/ SetInteractive /\ Solo
    \/ EnableBuffer /\ Solo
    \/ DisableBuffer /\ Solo
    \/ \E b \in BOOLEAN : SetVerbose(b) /\ Solo
    \/ \E b \in BOOLEAN : SetDebug(b) /\ Solo
    \/ \E b \in BOOLEAN : SetColor(b) /\ Solo
    \/ \E m \in Msgs : CallAddBuffer(m) /\ Solo
    \/ GetBuffer /\ Solo
    \/ \E m \in Msgs : Panic(m) /\ Solo
    \/ \E m \in Msgs : Standard(m) /\ Solo
    \/ \E m \in Msgs : StandardInfo(m) /\ Solo
    \/ \E m \in Msgs : Verbose(m) /\ Solo
    \/ \E m \in Msgs : VerboseInfo(m) /\ Solo
    \/ \E m \in Msgs : Debug(m) /\ Solo
    \/ \E m \in Msgs : Warn(m) /\ Solo
    \/ \E m \in Msgs : Error(m) /\ Solo

SpecInit == Init /\ AuxIdle

Spec == SpecInit /\ [][Next]_vars

\* ------------------------------------------------------------- type check

TypeOK ==
    /\ modeFlags \in BOOLEAN \X BOOLEAN \X BOOLEAN \X BOOLEAN
    /\ Len(bufferData) <= MaxBuf
    /\ Len(writes) <= 1

\* ---------------------------------------------------- claims: vocabulary

\* The handle each emission method writes through, and the methods by the
\* destination their channel is bound to.
ChannelOf ==
    [Standard |-> "stdVar", StandardInfo |-> "infoVar", Verbose |-> "stdVar",
     VerboseInfo |-> "infoVar", Warn |-> "warningVar", Debug |-> "debugVar",
     Error |-> "errorVar", Panic |-> "panicVar"]
StdOps == {"Standard", "StandardInfo", "Verbose", "VerboseInfo", "Warn"}
ErrOps == {"Debug", "Error"}
Unconditional == {"Standard", "StandardInfo", "Warn", "Error"}

\* The call just made wrote exactly once, through the handle of its method,
\* on the destination that handle is bound to.  (Emission leaves the handles
\* alone, so Handles is also their value before the call.)
OneWrite(op, ws) ==
    /\ Len(ws) = 1
    /\ ws[1].logger = ChannelOf[op]
    /\ ws[1].dest = Handles[ChannelOf[op]].out

\* s is t with exactly one entry appended
OneLonger(s, t) == Len(s) = Len(t) + 1 /\ SubSeq(s, 1, Len(t)) = t

\* strings.Split(s, sep) for a one-token separator
RECURSIVE SplitFrom(_, _, _)
SplitFrom(s, sep, cur) ==
    IF s = <<>> THEN <<cur>>
    ELSE IF Head(s) = sep
         THEN <<cur>> \o SplitFrom(Tail(s), sep, <<>>)
         ELSE SplitFrom(Tail(s), sep, Append(cur, Head(s)))
Split(s, sep) == SplitFrom(s, sep, <<>>)

\* Tokens that only a rendered line may hold.
PrefixTokens == {"       ", "INFO:  ", "WARN:  ", "DEBUG: ", "ERROR: ", "PANIC: "}
Holds(s, tokens) == \E i \in DOMAIN s : s[i] \in tokens

\* ---------------------------------------------------------------- claims

\* C1: a Verbose or VerboseInfo call with the verbose flag clear, and a Debug
\* call with the debug flag clear, writes nothing and leaves the buffer as it
\* was, whatever the other flags are; with its flag set the call makes
\* exactly one write, on its channel's destination.
C1_GatedEmission ==
    [][ /\ (lastOp' \in {"Verbose", "VerboseInfo"} /\ ~flagVerbose)
            => (writes' = <<>> /\ bufferData' = bufferData)
        /\ (lastOp' = "Debug" /\ ~flagDebug)
            => (writes' = <<>> /\ bufferData' = bufferData)
        /\ (lastOp' \in {"Verbose", "VerboseInfo"} /\ flagVerbose)
            => OneWrite(lastOp', writes')
        /\ (lastOp' = "Debug" /\ flagDebug)
            => OneWrite(lastOp', writes') ]_vars

\* C1 witness: a Verbose call dropped while buffering and debug are on and
\* the buffer already holds a line.
C1_Witness ==
    /\ lastOp = "Verbose"
    /\ ~flagVerbose /\ flagDebug /\ flagEnableBuffer
    /\ writes = <<>>
    /\ Len(bufferData) = 1

\* C2 (as claimed): a Panic call writes to os.Stderr, whatever SetOutput
\* calls came before it.
C2_PanicOnStderr ==
    lastOp = "Panic" => \A i \in DOMAIN writes : writes[i].dest = OsStderr

\* C3 (as claimed): every Init call leaves all four flags clear and the
\* buffer empty.
C3_InitResets ==
    lastOp = "Init" =>
        /\ ~flagVerbose /\ ~flagDebug /\ ~flagColor /\ ~flagEnableBuffer
        /\ bufferData = <<>>

\* C4: a Panic call leaves the buffer and the four flags as they were and
\* makes its one write through the panic handle.
C4_PanicNotBuffered ==
    [][ lastOp' = "Panic" =>
            /\ bufferData' = bufferData
            /\ modeFlags' = modeFlags
            /\ OneWrite("Panic", writes') ]_vars

\* C4 witness: a Panic call made while buffering is on.
C4_Witness ==
    /\ lastOp = "Panic"
    /\ flagEnableBuffer
    /\ Len(writes) = 1
    /\ Len(bufferData) = 1

\* C5: GetBuffer returns the payloads that were buffered, in call order,
\* separated by single newlines with none at the end, and "" when nothing
\* was buffered.
C5_GetBufferContent ==
    lastOp = "GetBuffer" =>
        IF hist = <<>> THEN ret = <<>> ELSE Split(ret, "\n") = hist

\* C5 witness: GetBuffer called with two different lines buffered.
C5_Witness ==
    /\ lastOp = "GetBuffer"
    /\ Len(hist) = 2
    /\ hist[1] # hist[2]
    /\ Len(ret) > Len(hist[1])

\* C6: GetBuffer changes neither the buffer, the flags nor the handles and
\* writes nothing, and it returns what the previous GetBuffer returned when
\* nothing was buffered in between.
C6_GetBufferPure ==
    [][ lastOp' = "GetBuffer" =>
            /\ UNCHANGED <<loggers, modeFlags, bufferData>>
            /\ writes' = <<>>
            /\ retFresh => ret' = ret ]_vars

\* C6 witness: a GetBuffer call that finds the earlier result still current
\* after a setter, with a line in the buffer.
C6_Witness ==
    /\ lastOp = "GetBuffer"
    /\ ret # <<>>
    /\ flagVerbose /\ ~flagEnableBuffer
    /\ Len(bufferData) = 2

\* C7 (as claimed): after Init, emissions with buffering off, EnableBuffer
\* and unconditional emissions, the buffer holds exactly the payloads
\* buffered since that Init.
C7_OnlySinceInit ==
    (lastOp \in Unconditional /\ flagEnableBuffer) => bufferData = sinceInit

\* C8: Standard, StandardInfo, Warn and Error write exactly once on their
\* channel whatever the flags are, and append exactly one entry to the buffer
\* when bufferEnabled is set at the call, none when it is clear.
C8_Unconditional ==
    [][ lastOp' \in Unconditional =>
            /\ OneWrite(lastOp', writes')
            /\ IF flagEnableBuffer
               THEN OneLonger(bufferData', bufferData)
               ELSE bufferData' = bufferData ]_vars

\* C8 witness: a Warn call written and buffered with verbose, debug and
\* color clear.
C8_Witness ==
    /\ lastOp = "Warn"
    /\ ~flagVerbose /\ ~flagDebug /\ ~flagColor /\ flagEnableBuffer
    /\ Len(writes) = 1
    /\ Len(bufferData) = 2

\* C9: what Standard, StandardInfo, Verbose, VerboseInfo and Warn write goes
\* to the standard destination of the last Init or SetOutput and not to the
\* error destination; what Debug and Error write goes to the error
\* destination and not to the standard one.
C9_Routing ==
    /\ lastOp \in StdOps =>
           \A i \in DOMAIN writes :
               writes[i].dest = curOut /\ writes[i].dest # curErr
    /\ lastOp \in ErrOps =>
           \A i \in DOMAIN writes :
               writes[i].dest = curErr /\ writes[i].dest # curOut

\* C9 witness: a Warn call written after SetOutput(C, D).
C9_Witness ==
    /\ lastOp = "Warn"
    /\ curOut = "C"
    /\ Len(writes) = 1
    /\ writes[1].dest = "C"

\* C10: no buffer entry holds a color escape sequence or a channel prefix.
C10_BufferPlain ==
    \A i \in DOMAIN bufferData :
        ~Holds(bufferData[i], Escapes \cup PrefixTokens)

\* C10 witness: StandardInfo buffered with color on and the prefixes
\* colorized; the line written holds escape sequences.
C10_Witness ==
    /\ lastOp = "StandardInfo"
    /\ flagColor /\ flagEnableBuffer
    /\ infoVar.prefix = green(<<"INFO:  ">>)
    /\ Len(writes) = 1
    /\ Holds(writes[1].line, Escapes)
    /\ Len(bufferData) = 1

\* ------------------------------------------- claims: setters and prefixes

Channels == {"stdVar", "infoVar", "warningVar", "debugVar", "errorVar", "panicVar"}
Prefixed == Channels \ {"stdVar"}
Setters == {"SetVerbose", "SetDebug", "SetColor", "EnableBuffer", "DisableBuffer"}

\* The five color-wrapped prefixes.
ColorPrefix ==
    [infoVar    |-> <<EscGreen, "INFO:  ", EscReset>>,
     warningVar |-> <<EscYellow, "WARN:  ", EscReset>>,
     debugVar   |-> <<EscRed, "DEBUG: ", EscReset>>,
     errorVar   |-> <<EscRed, "ERROR: ", EscReset>>,
     panicVar   |-> <<EscRed, "PANIC: ", EscReset>>]
Colorized == \A c \in Prefixed : Handles[c].prefix = ColorPrefix[c]

\* s is the beginning of t
IsPrefix(s, t) == Len(s) <= Len(t) /\ SubSeq(t, 1, Len(s)) = s

\* C11: each flag setter gives its own flag the requested value and leaves
\* the other three flags, the buffer and the six handles as they were.
C11_SettersMoveOneFlag ==
    [][ /\ lastOp' = "SetVerbose" =>
            /\ flagVerbose' = lastArg'
            /\ UNCHANGED <<flagDebug, flagColor, flagEnableBuffer>>
        /\ lastOp' = "SetDebug" =>
            /\ flagDebug' = lastArg'
            /\ UNCHANGED <<flagVerbose, flagColor, flagEnableBuffer>>
        /\ lastOp' = "SetColor" =>
            /\ flagColor' = lastArg'
            /\ UNCHANGED <<flagVerbose, flagDebug, flagEnableBuffer>>
        /\ lastOp' = "EnableBuffer" =>
            /\ flagEnableBuffer' = TRUE
            /\ UNCHANGED <<flagVerbose, flagDebug, flagColor>>
        /\ lastOp' = "DisableBuffer" =>
            /\ flagEnableBuffer' = FALSE
            /\ UNCHANGED <<flagVerbose, flagDebug, flagColor>>
        /\ lastOp' \in Setters => UNCHANGED <<loggers, bufferData>> ]_vars

\* C11 witness: SetDebug(true) with verbose clear, color set and a line
\* buffered.
C11_Witness ==
    /\ lastOp = "SetDebug"
    /\ lastArg = TRUE
    /\ flagDebug /\ ~flagVerbose /\ flagColor /\ flagEnableBuffer
    /\ Len(bufferData) = 1

\* C13: SetColorPrefix with the color flag clear changes no handle, flag or
\* buffer entry; with the flag set it leaves the five prefixes color-wrapped
\* and the standard handle untouched, and a second call changes nothing.
C13_SetColorPrefix ==
    [][ lastOp' = "SetColorPrefix" =>
            /\ UNCHANGED <<modeFlags, bufferData, stdVar>>
            /\ IF flagColor
               THEN /\ \A c \in Prefixed :
                         /\ Handles'[c].prefix = ColorPrefix[c]
                         /\ Handles'[c].out = Handles[c].out
                         /\ Handles'[c].flag = Handles[c].flag
                    /\ withColorPrefix(Handles', flagColor') = Handles'
               ELSE UNCHANGED loggers ]_vars

\* C13 witness: SetColorPrefix called with the color flag set.
C13_Witness ==
    /\ lastOp = "SetColorPrefix"
    /\ flagColor
    /\ infoVar.prefix = ColorPrefix["infoVar"]
    /\ stdVar.prefix = <<"       ">>

\* C14: the six handles carry the same flag word.
C14_FlagsUniform ==
    \A c, d \in Channels : Handles[c].flag = Handles[d].flag

\* C14 witness: SetFlags(Ldate | Ltime) has reached the panic handle.
C14_Witness ==
    /\ lastOp = "SetFlags"
    /\ panicVar.flag = Ldate + Ltime

\* C15: after SetInteractive every handle has the flag word Lmsgprefix alone
\* and its destination as before; the five prefixes are color-wrapped when
\* the color flag was set at the call and as before when it was clear; the
\* standard prefix, the flags and the buffer are as before.
C15_SetInteractive ==
    [][ lastOp' = "SetInteractive" =>
            /\ \A c \in Channels :
                   /\ Handles'[c].flag = Lmsgprefix
                   /\ ~HasFlag(Handles'[c].flag, Ldate)
                   /\ ~HasFlag(Handles'[c].flag, Ltime)
                   /\ Handles'[c].out = Handles[c].out
            /\ \A c \in Prefixed :
                   Handles'[c].prefix =
                       IF flagColor THEN ColorPrefix[c] ELSE Handles[c].prefix
            /\ stdVar'.prefix = stdVar.prefix
            /\ UNCHANGED <<modeFlags, bufferData>> ]_vars

\* C15 witness: SetInteractive called with the color flag set.
C15_Witness ==
    /\ lastOp = "SetInteractive"
    /\ flagColor
    /\ Colorized
    /\ infoVar.flag = Lmsgprefix

\* The call just made was a non-panic emission that passed its gate.
PassedGate(op) ==
    \/ op \in Unconditional
    \/ op \in {"Verbose", "VerboseInfo"} /\ flagVerbose
    \/ op = "Debug" /\ flagDebug

\* C17 (as claimed): across every call other than Init the old buffer is the
\* beginning of the new one, and the buffer grows, by one entry, only in a
\* non-panic emission that passes its gate while bufferEnabled is set.
C17_GrowsOnlyByEmission ==
    [][ lastOp' # "Init" =>
            /\ IsPrefix(bufferData, bufferData')
            /\ bufferData' # bufferData =>
                   /\ OneLonger(bufferData', bufferData)
                   /\ flagEnableBuffer
                   /\ PassedGate(lastOp') ]_vars

\* C17 (amended): the same, where the buffer also grows in a direct call of
\* the exported AddBuffer while bufferEnabled is set.
C17_AppendOnly ==
    [][ lastOp' # "Init" =>
            /\ IsPrefix(bufferData, bufferData')
            /\ bufferData' # bufferData =>
                   /\ OneLonger(bufferData', bufferData)
                   /\ flagEnableBuffer
                   /\ PassedGate(lastOp') \/ lastOp' = "AddBuffer" ]_vars

\* C17 witness: a direct AddBuffer call has added a second line, with no
\* write on any destination.
C17_Witness ==
    /\ lastOp = "AddBuffer"
    /\ flagEnableBuffer
    /\ writes = <<>>
    /\ Len(bufferData) = 2

\* C18: once the five prefixes are color-wrapped they stay so through every
\* call other than Init, SetColor(false) included; SetColorPrefix and
\* SetInteractive called with the color flag set leave them color-wrapped;
\* the standard prefix never holds an escape sequence.
C18_ColorSticks ==
    [][ /\ (Colorized /\ lastOp' # "Init") => Colorized'
        /\ (lastOp' \in {"SetColorPrefix", "SetInteractive"} /\ flagColor)
               => Colorized'
        /\ ~Holds(stdVar'.prefix, Escapes) ]_vars

\* C18 witness: SetColorPrefix called after SetColor(false), the prefixes
\* still color-wrapped.
C18_Witness ==
    /\ lastOp = "SetColorPrefix"
    /\ ~flagColor
    /\ Colorized

\* ------------------------------------------ the bit-register revisions

\* part_000:13  type bitset uint8
Width == 8

\* part_000:15-21
LgVerbose == 1
LgDebug == 2
LgColor == 4
LgBuffer == 8
LgStandard == 0

\* Bitwise operations on Width-bit words, bit by bit from the lowest.
RECURSIVE Bitwise(_, _, _, _)
Bitwise(table, x, y, n) ==
    IF n = 0 THEN 0
    ELSE table[(x % 2) + 1][(y % 2) + 1]
         + 2 * Bitwise(table, x \div 2, y \div 2, n - 1)

\* x | y, x & y, x &^ y, x ^ y  (rows: bit of x; columns: bit of y)
BitOr(x, y) == Bitwise(<<<<0, 1>>, <<1, 1>>>>, x, y, Width)
BitAnd(x, y) == Bitwise(<<<<0, 0>>, <<0, 1>>>>, x, y, Width)
BitAndNot(x, y) == Bitwise(<<<<0, 0>>, <<1, 0>>>>, x, y, Width)
BitXor(x, y) == Bitwise(<<<<0, 1>>, <<1, 0>>>>, x, y, Width)

\* A bit-register Log (part_000:30-39) is the record
\*   [h |-> the six handles, bufferData |-> lines, modeRegister |-> word].
\* A method is a function from the Log (and its arguments) to the Log after
\* the call; an emission also gives the Write calls it made.

\* part_000:85-87
modeSet(L, flag) == [L EXCEPT !.modeRegister = BitOr(@, flag)]

\* Mutant: modeClear assigns the complement of the flag.
modeClear_Complement(L, flag) ==
    [L EXCEPT !.modeRegister = BitAndNot(2^Width - 1, flag)]

\* part_000:89-91
modeClear(L, flag) == [L EXCEPT !.modeRegister = BitAndNot(@, flag)]

\* part_001:103-105
modeToggle(L, flag) == [L EXCEPT !.modeRegister = BitXor(@, flag)]

\* part_000:97-99
modeHas(L, flag) == BitAnd(L.modeRegister, flag) # 0

\* The zero Log, before its first Init.
bitZero == [h |-> Unused, bufferData |-> <<>>, modeRegister |-> 0]

\* part_000:44-55
bitInit(L, stdOut, stdErr) ==
    [L EXCEPT !.h = initHandles(stdOut, stdErr), !.modeRegister = LgStandard]

\* part_000:66-74
bitSetColorPrefix(L) == [L EXCEPT !.h = withColorPrefix(@, modeHas(L, LgColor))]

\* part_000:76-83
bitSetOutput(L, stdOut, stdErr) == [L EXCEPT !.h = withOutput(@, stdOut, stdErr)]

\* part_000:106-108
bitEnableBuffer(L) == modeSet(L, LgBuffer)

\* part_000:110-112
bitDisableBuffer(L) == modeClear(L, LgBuffer)

\* part_000:114-120
bitSetVerbose(L, b) == IF b THEN modeSet(L, LgVerbose) ELSE modeClear(L, LgVerbose)

\* part_000:122-128
bitSetDebug(L, b) == IF b THEN modeSet(L, LgDebug) ELSE modeClear(L, LgDebug)

\* part_000:130-136
bitSetColor(L, b) == IF b THEN modeSet(L, LgColor) ELSE modeClear(L, LgColor)

\* part_000:139-143
bitAddBuffer(L, format, v) ==
    IF modeHas(L, LgBuffer)
    THEN [L EXCEPT !.bufferData = Append(@, Sprintf(format, v))]
    ELSE L

\* part_000:145-147
bitGetBuffer(L) == Join(L.bufferData, <<"\n">>)

\* The result of a call: the Log after it, the writes made, the value
\* returned.
NoRet == "-"
Result(L, ws, r) == [log |-> L, writes |-> ws, ret |-> r]
Quiet(L) == Result(L, <<>>, NoRet)

\* part_000:150-173
bitlog(L, m) ==
    Result(bitAddBuffer(L, m.format, m.v),
           <<Printf("stdVar", L.h.stdVar, m.format, m.v)>>, NoRet)
bitinfo(L, m) ==
    Result(bitAddBuffer(L, m.format, m.v),
           <<Printf("infoVar", L.h.infoVar, green(m.format), m.v)>>, NoRet)
bitwarn(L, m) ==
    Result(bitAddBuffer(L, m.format, m.v),
           <<Printf("warningVar", L.h.warningVar, yellow(m.format), m.v)>>, NoRet)
bitdebug(L, m) ==
    Result(bitAddBuffer(L, m.format, m.v),
           <<Printf("debugVar", L.h.debugVar, red(m.format), m.v)>>, NoRet)
biterror(L, m) ==
    Result(bitAddBuffer(L, m.format, m.v),
           <<Printf("errorVar", L.h.errorVar, red(m.format), m.v)>>, NoRet)

\* part_000:176-212
bitPanic(L, m) ==
    Result(L, <<Printf("panicVar", L.h.panicVar, red(m.format), m.v)>>, NoRet)
bitStandard(L, m) == bitlog(L, m)
bitStandardInfo(L, m) == bitinfo(L, m)
bitVerbose(L, m) == IF modeHas(L, LgVerbose) THEN bitlog(L, m) ELSE Quiet(L)
bitVerboseInfo(L, m) == IF modeHas(L, LgVerbose) THEN bitinfo(L, m) ELSE Quiet(L)
bitDebug(L, m) == IF modeHas(L, LgDebug) THEN bitdebug(L, m) ELSE Quiet(L)
bitWarn(L, m) == bitwarn(L, m)
bitError(L, m) == biterror(L, m)

\* part_001:125-151
SetMode(L, f) == modeSet(L, f)
ClearMode(L, f) == modeClear(L, f)
ToggleMode(L, f) == modeToggle(L, f)
GetMode(L) == L.modeRegister
HasMode(L, f) == modeHas(L, f)
SetModeBool(L, f, b) == IF b THEN modeSet(L, f) ELSE modeClear(L, f)

\* ------------------------------ the mode operations of part_001, alone

\* Flag words the host passes: the four flags, two of them together, and a
\* bit that is none of the four.
ModeInputs ==
    {LgVerbose, LgDebug, LgColor, LgBuffer, LgVerbose + LgDebug, 2 * LgBuffer}

mainVars == <<loggers, modeFlags, bufferData, writes, ret, observer>>

\* A call on the bit-register Log alone.
ModeCall(name, arg, r) ==
    /\ bitLog' = r.log
    /\ bitOut' = [writes |-> r.writes, ret |-> r.ret]
    /\ lastOp' = name
    /\ lastArg' = arg
    /\ UNCHANGED <<mainVars, twin, twinOut, race>>

ModeInit ==
    \E p \in InitPairs : ModeCall("Init", NoArg, Quiet(bitInit(bitLog, p[1], p[2])))
ModeEnableBuffer == ModeCall("EnableBuffer", NoArg, Quiet(bitEnableBuffer(bitLog)))
ModeDisableBuffer == ModeCall("DisableBuffer", NoArg, Quiet(bitDisableBuffer(bitLog)))
ModeSetMode(f) == ModeCall("SetMode", f, Quiet(SetMode(bitLog, f)))
ModeClearMode(f) == ModeCall("ClearMode", f, Quiet(ClearMode(bitLog, f)))
ModeToggleMode(f) == ModeCall("ToggleMode", f, Quiet(ToggleMode(bitLog, f)))
ModeSetModeBool(f, b) == ModeCall("SetModeBool", f, Quiet(SetModeBool(bitLog, f, b)))
ModeGetMode == ModeCall("GetMode", NoArg, Result(bitLog, <<>>, GetMode(bitLog)))
ModeHasMode(f) == ModeCall("HasMode", f, Result(bitLog, <<>>, HasMode(bitLog, f)))

InitMode ==
    /\ Init
    /\ bitLog = bitInit(bitZero, curOut, curErr)
    /\ bitOut = [writes |-> <<>>, ret |-> NoRet]
    /\ twin = Unused
    /\ twinOut = Unused
    /\ race = Unused

NextMode ==
    \/ ModeInit
    \/ ModeEnableBuffer
    \/ ModeDisableBuffer
    \/ \E f \in ModeInputs : ModeSetMode(f)
    \/ \E f \in ModeInputs : ModeClearMode(f)
    \/ \E f \in ModeInputs : ModeToggleMode(f)
    \/ \E f \in ModeInputs, b \in BOOLEAN : ModeSetModeBool(f, b)
    \/ ModeGetMode
    \/ \E f \in ModeInputs : ModeHasMode(f)

SpecMode == InitMode /\ [][NextMode]_vars

\* --------------------------- logger.go and part_000, given the same calls

\* The part_000 Log takes the call that the logger.go Log takes.
Both(r) ==
    /\ bitLog' = r.log
    /\ bitOut' = [writes |-> r.writes, ret |-> r.ret]
    /\ UNCHANGED <<twin, twinOut, race>>

EqInit(stdOut, stdErr) ==
    LogInit(stdOut, stdErr) /\ Both(Quiet(bitInit(bitLog, stdOut, stdErr)))
EqSetColorPrefix == SetColorPrefix /\ Both(Quiet(bitSetColorPrefix(bitLog)))
EqSetOutput(stdOut, stdErr) ==
    SetOutput(stdOut, stdErr) /\ Both(Quiet(bitSetOutput(bitLog, stdOut, stdErr)))
EqEnableBuffer == EnableBuffer /\ Both(Quiet(bitEnableBuffer(bitLog)))
EqDisableBuffer == DisableBuffer /\ Both(Quiet(bitDisableBuffer(bitLog)))
EqSetVerbose(b) == SetVerbose(b) /\ Both(Quiet(bitSetVerbose(bitLog, b)))
EqSetDebug(b) == SetDebug(b) /\ Both(Quiet(bitSetDebug(bitLog, b)))
EqSetColor(b) == SetColor(b) /\ Both(Quiet(bitSetColor(bitLog, b)))
EqGetBuffer == GetBuffer /\ Both(Result(bitLog, <<>>, bitGetBuffer(bitLog)))
EqPanic(m) == Panic(m) /\ Both(bitPanic(bitLog, m))
EqStandard(m) == Standard(m) /\ Both(bitStandard(bitLog, m))
EqStandardInfo(m) == StandardInfo(m) /\ Both(bitStandardInfo(bitLog, m))
EqVerbose(m) == Verbose(m) /\ Both(bitVerbose(bitLog, m))
EqVerboseInfo(m) == VerboseInfo(m) /\ Both(bitVerboseInfo(bitLog, m))
EqDebug(m) == Debug(m) /\ Both(bitDebug(bitLog, m))
EqWarn(m) == Warn(m) /\ Both(bitWarn(bitLog, m))
EqError(m) == Error(m) /\ Both(bitError(bitLog, m))

\* The messages logged to both revisions: the one with an argument to format.
EqMsgs == {m \in Msgs : m.v # <<>>}

InitEq == InitMode

NextEq ==
    \/ \E p \in InitPairs : EqInit(p[1], p[2])
    \/ EqSetColorPrefix
    \/ \E p \in OutputPairs : EqSetOutput(p[1], p[2])
    \/ EqEnableBuffer
    \/ EqDisableBuffer
    \/ \E b \in BOOLEAN : EqSetVerbose(b)
    \/ \E b \in BOOLEAN : EqSetDebug(b)
    \/ \E b \in BOOLEAN : EqSetColor(b)
    \/ EqGetBuffer
    \/ \E m \in EqMsgs : EqPanic(m)
    \/ \E m \in EqMsgs : EqStandard(m)
    \/ \E m \in EqMsgs : EqStandardInfo(m)
    \/ \E m \in EqMsgs : EqVerbose(m)
    \/ \E m \in EqMsgs : EqVerboseInfo(m)
    \/ \E m \in EqMsgs : EqDebug(m)
    \/ \E m \in EqMsgs : EqWarn(m)
    \/ \E m \in EqMsgs : EqError(m)

SpecEq == InitEq /\ [][NextEq]_vars

\* ------------- two logger.go Logs that differ only in their SetColor calls

\* logger.go:21-33: a second Log of the four-boolean revision, as a value.
twinZero ==
    [h |-> Unused, bufferData |-> <<>>, flagEnableBuffer |-> FALSE,
     flagVerbose |-> FALSE, flagDebug |-> FALSE, flagColor |-> FALSE]

\* logger.go:37-48
twinInit(L, stdOut, stdErr) ==
    [L EXCEPT !.h = initHandles(stdOut, stdErr), !.flagEnableBuffer = FALSE]

\* logger.go:50-57
twinSetFlags(L, f) == [L EXCEPT !.h = withFlags(@, f)]

\* logger.go:69-76
twinSetOutput(L, stdOut, stdErr) == [L EXCEPT !.h = withOutput(@, stdOut, stdErr)]

\* logger.go:83-101
twinEnableBuffer(L) == [L EXCEPT !.flagEnableBuffer = TRUE]
twinDisableBuffer(L) == [L EXCEPT !.flagEnableBuffer = FALSE]
twinSetVerbose(L, b) == [L EXCEPT !.flagVerbose = b]
twinSetDebug(L, b) == [L EXCEPT !.flagDebug = b]
twinSetColor(L, b) == [L EXCEPT !.flagColor = b]

\* logger.go:104-108
twinAddBuffer(L, format, v) ==
    IF L.flagEnableBuffer
    THEN [L EXCEPT !.bufferData = Append(@, Sprintf(format, v))]
    ELSE L

\* logger.go:110-112
twinGetBuffer(L) == Join(L.bufferData, <<"\n">>)

\* logger.go:115-118
twinlog(L, m) ==
    Result(twinAddBuffer(L, m.format, m.v),
           <<Printf("stdVar", L.h.stdVar, m.format, m.v)>>, NoRet)

\* Mutant: the template is colorized only when the color flag is set.
twininfo_ColorGated(L, m) ==
    Result(twinAddBuffer(L, m.format, m.v),
           <<Printf("infoVar", L.h.infoVar,
                    IF L.flagColor THEN green(m.format) ELSE m.format, m.v)>>,
           NoRet)

\* logger.go:120-123
twininfo(L, m) ==
    Result(twinAddBuffer(L, m.format, m.v),
           <<Printf("infoVar", L.h.infoVar, green(m.format), m.v)>>, NoRet)

\* logger.go:125-128
twinwarn(L, m) ==
    Result(twinAddBuffer(L, m.format, m.v),
           <<Printf("warningVar", L.h.warningVar, yellow(m.format), m.v)>>, NoRet)

\* logger.go:130-133
twindebug(L, m) ==
    Result(twinAddBuffer(L, m.format, m.v),
           <<Printf("debugVar", L.h.debugVar, red(m.format), m.v)>>, NoRet)

\* logger.go:135-138
twinerror(L, m) ==
    Result(twinAddBuffer(L, m.format, m.v),
           <<Printf("errorVar", L.h.errorVar, red(m.format), m.v)>>, NoRet)

\* logger.go:141-177
twinPanic(L, m) ==
    Result(L, <<Printf("panicVar", L.h.panicVar, red(m.format), m.v)>>, NoRet)
twinStandard(L, m) == twinlog(L, m)
twinStandardInfo(L, m) == twininfo(L, m)
twinVerbose(L, m) == IF L.flagVerbose THEN twinlog(L, m) ELSE Quiet(L)
twinVerboseInfo(L, m) == IF L.flagVerbose THEN twininfo(L, m) ELSE Quiet(L)
twinDebug(L, m) == IF L.flagDebug THEN twindebug(L, m) ELSE Quiet(L)
twinWarn(L, m) == twinwarn(L, m)
twinError(L, m) == twinerror(L, m)

\* The second Log takes the call that the first Log takes.
Pair(r) ==
    /\ twin' = r.log
    /\ twinOut' = [writes |-> r.writes, ret |-> r.ret]
    /\ UNCHANGED <<bitLog, bitOut, race>>

PairInit(stdOut, stdErr) ==
    LogInit(stdOut, stdErr) /\ Pair(Quiet(twinInit(twin, stdOut, stdErr)))
PairSetFlags(f) == SetFlags(f) /\ Pair(Quiet(twinSetFlags(twin, f)))
PairSetOutput(stdOut, stdErr) ==
    SetOutput(stdOut, stdErr) /\ Pair(Quiet(twinSetOutput(twin, stdOut, stdErr)))
PairEnableBuffer == EnableBuffer /\ Pair(Quiet(twinEnableBuffer(twin)))
PairDisableBuffer == DisableBuffer /\ Pair(Quiet(twinDisableBuffer(twin)))
PairSetVerbose(b) == SetVerbose(b) /\ Pair(Quiet(twinSetVerbose(twin, b)))
PairSetDebug(b) == SetDebug(b) /\ Pair(Quiet(twinSetDebug(twin, b)))
PairAddBuffer(m) == CallAddBuffer(m) /\ Pair(Quiet(twinAddBuffer(twin, m.format, m.v)))
PairGetBuffer == GetBuffer /\ Pair(Result(twin, <<>>, twinGetBuffer(twin)))
PairPanic(m) == Panic(m) /\ Pair(twinPanic(twin, m))
PairStandard(m) == Standard(m) /\ Pair(twinStandard(twin, m))
PairStandardInfo(m) == StandardInfo(m) /\ Pair(twinStandardInfo(twin, m))
PairVerbose(m) == Verbose(m) /\ Pair(twinVerbose(twin, m))
PairVerboseInfo(m) == VerboseInfo(m) /\ Pair(twinVerboseInfo(twin, m))
PairDebug(m) == Debug(m) /\ Pair(twinDebug(twin, m))
PairWarn(m) == Warn(m) /\ Pair(twinWarn(twin, m))
PairError(m) == Error(m) /\ Pair(twinError(twin, m))

\* SetColor called on the first Log only, and on the second Log only.
FirstSetColor(b) == SetColor(b) /\ UNCHANGED aux
SecondSetColor(b) ==
    /\ twin' = twinSetColor(twin, b)
    /\ UNCHANGED <<mainVars, lastOp, lastArg, twinOut, bitLog, bitOut, race>>

InitTwin ==
    /\ Init
    /\ twin = twinInit(twinZero, curOut, curErr)
    /\ twinOut = [writes |-> <<>>, ret |-> NoRet]
    /\ bitLog = Unused
    /\ bitOut = Unused
    /\ race = Unused

NextTwin ==
    \/ \E p \in InitPairs : PairInit(p[1], p[2])
    \/ \E f \in FlagInputs : PairSetFlags(f)
    \/ \E p \in OutputPairs : PairSetOutput(p[1], p[2])
    \/ PairEnableBuffer
    \/ PairDisableBuffer
    \/ \E b \in BOOLEAN : PairSetVerbose(b)
    \/ \E b \in BOOLEAN : PairSetDebug(b)
    \/ \E b \in BOOLEAN : FirstSetColor(b)
    \/ \E b \in BOOLEAN : SecondSetColor(b)
    \/ \E m \in Msgs : PairAddBuffer(m)
    \/ PairGetBuffer
    \/ \E m \in Msgs : PairPanic(m)
    \/ \E m \in Msgs : PairStandard(m)
    \/ \E m \in Msgs : PairStandardInfo(m)
    \/ \E m \in Msgs : PairVerbose(m)
    \/ \E m \in Msgs : PairVerboseInfo(m)
    \/ \E m \in Msgs : PairDebug(m)
    \/ \E m \in Msgs : PairWarn(m)
    \/ \E m \in Msgs : PairError(m)

SpecTwin == InitTwin /\ [][NextTwin]_vars

\* ----------------------- one Log used by several goroutines, unguarded

\* The goroutines of the host: two unconditional emissions (Standard, Warn),
\* a gated emission (Verbose) and a flag setter (SetVerbose).
Emitters == {"Standard", "Warn", "Verbose"}
Threads == Emitters \cup {"SetVerbose"}

\* The Log the goroutines share, and what each goroutine holds locally:
\* its position, its message, the slice it read, the flag value it read.
raceZero ==
    [L |-> twinZero,
     pc |-> [t \in Threads |-> "idle"],
     msg |-> [t \in Emitters |-> CHOOSE m \in Msgs : m.v = <<>>],
     snap |-> [t \in Emitters |-> <<>>],
     base |-> <<>>,
     old |-> FALSE,
     new |-> FALSE,
     saw |-> FALSE,
     writes |-> <<>>]

Idle == \A t \in Threads : race.pc[t] = "idle"
Done == \A t \in Threads : race.pc[t] = "done"

\* Before the goroutines start, the host sets the Log up from one goroutine.
RaceEnableBuffer ==
    /\ Idle
    /\ race' = [race EXCEPT !.L = twinEnableBuffer(@)]
RaceSetVerbose(b) ==
    /\ Idle
    /\ race' = [race EXCEPT !.L = twinSetVerbose(@, b)]

\* go l.Standard(m1); go l.Warn(m2); go l.Verbose(m3); go l.SetVerbose(b)
Go(m1, m2, m3, b) ==
    /\ Idle
    /\ race' = [race EXCEPT
                  !.pc = [t \in Threads |->
                            CASE t = "Verbose" -> "gate"
                              [] t = "SetVerbose" -> "set"
                              [] OTHER -> "print"],
                  !.msg = [t \in Emitters |->
                            CASE t = "Standard" -> m1
                              [] t = "Warn" -> m2
                              [] OTHER -> m3],
                  !.base = race.L.bufferData,
                  !.old = race.L.flagVerbose,
                  !.new = b]

\* logger.go:91-93: the setter stores the flag.
RaceSet ==
    /\ race.pc["SetVerbose"] = "set"
    /\ race' = [race EXCEPT !.L = twinSetVerbose(@, race.new),
                            !.pc["SetVerbose"] = "done"]

\* logger.go:154: Verbose loads the flag.
RaceGate ==
    /\ race.pc["Verbose"] = "gate"
    /\ race' = [race EXCEPT !.saw = race.L.flagVerbose,
                            !.pc["Verbose"] =
                                IF race.L.flagVerbose THEN "print" ELSE "done"]

\* logger.go:116, 126: the Printf of log and warn (a log.Logger locks itself).
RaceLine(t) ==
    IF t = "Warn"
    THEN Printf("warningVar", race.L.h.warningVar,
                yellow(race.msg[t].format), race.msg[t].v)
    ELSE Printf("stdVar", race.L.h.stdVar, race.msg[t].format, race.msg[t].v)

RacePrint(t) ==
    /\ race.pc[t] = "print"
    /\ race' = [race EXCEPT !.writes = Append(@, RaceLine(t)),
                            !.pc[t] = "read"]

\* Mutant: AddBuffer appends without looking at the buffer flag.
RaceRead_NoTest(t) ==
    /\ race.pc[t] = "read"
    /\ race' = [race EXCEPT !.snap[t] = race.L.bufferData,
                            !.pc[t] = "write"]

\* logger.go:105-106: AddBuffer loads the flag and, if set, the slice.
RaceRead(t) ==
    /\ race.pc[t] = "read"
    /\ race' = IF race.L.flagEnableBuffer
               THEN [race EXCEPT !.snap[t] = race.L.bufferData,
                                 !.pc[t] = "write"]
               ELSE [race EXCEPT !.pc[t] = "done"]

\* logger.go:106: AddBuffer stores the slice it read, one line longer.
RaceWrite(t) ==
    /\ race.pc[t] = "write"
    /\ race' = [race EXCEPT
                  !.L.bufferData =
                      Append(race.snap[t],
                             Sprintf(race.msg[t].format, race.msg[t].v)),
                  !.pc[t] = "done"]

frozen == <<mainVars, lastOp, lastArg, bitLog, bitOut, twin, twinOut>>

InitRace ==
    /\ Init
    /\ race = [raceZero EXCEPT !.L = twinInit(twinZero, curOut, curErr)]
    /\ bitLog = Unused
    /\ bitOut = Unused
    /\ twin = Unused
    /\ twinOut = Unused

NextRace ==
    \/ RaceEnableBuffer /\ UNCHANGED frozen
    \/ \E b \in BOOLEAN : RaceSetVerbose(b) /\ UNCHANGED frozen
    \/ \E m1 \in Msgs, m2 \in Msgs, m3 \in Msgs, b \in BOOLEAN :
           Go(m1, m2, m3, b) /\ UNCHANGED frozen
    \/ RaceSet /\ UNCHANGED frozen
    \/ RaceGate /\ UNCHANGED frozen
    \/ \E t \in Emitters : RacePrint(t) /\ UNCHANGED frozen
    \/ \E t \in Emitters : RaceRead(t) /\ UNCHANGED frozen
    \/ \E t \in Emitters : RaceWrite(t) /\ UNCHANGED frozen

SpecRace == InitRace /\ [][NextRace]_vars

\* ------------------------------------------- claims: the mode register

DefinedFlags == 0..(LgVerbose + LgDebug + LgColor + LgBuffer)
FlagCalls == {"SetMode", "ClearMode", "ToggleMode", "SetModeBool"}

\* C12 (as claimed): the register never leaves the 16 combinations of the
\* four flags.
C12_SixteenOnly == bitLog.modeRegister \in DefinedFlags

\* C12 (amended): the register is a Width-bit word; Init clears it, and a
\* mode call leaves it among the 16 combinations of the four flags when it
\* was among them and the flag word passed holds none but the four flags.
C12_RegisterRange ==
    [][ /\ bitLog'.modeRegister \in 0..(2^Width - 1)
        /\ lastOp' = "Init" => bitLog'.modeRegister = 0
        /\ (/\ bitLog.modeRegister \in DefinedFlags
            /\ lastOp' \in FlagCalls => lastArg' \in DefinedFlags)
               => bitLog'.modeRegister \in DefinedFlags ]_vars

\* C12 witness: all four flags set, by a ToggleMode of the color flag.
C12_Witness ==
    /\ lastOp = "ToggleMode"
    /\ lastArg = LgColor
    /\ bitLog.modeRegister = LgVerbose + LgDebug + LgColor + LgBuffer

\* C16 (as claimed): the two revisions agree on every flag, on the writes of
\* every call and on what GetBuffer returns.
C16_RevisionsAgree ==
    /\ flagVerbose = modeHas(bitLog, LgVerbose)
    /\ flagDebug = modeHas(bitLog, LgDebug)
    /\ flagColor = modeHas(bitLog, LgColor)
    /\ flagEnableBuffer = modeHas(bitLog, LgBuffer)
    /\ writes = bitOut.writes
    /\ lastOp = "GetBuffer" => ret = bitOut.ret

\* --------------------------------------------- claims: the color flag

Emissions == StdOps \cup ErrOps \cup {"Panic"}

\* C20: two Logs given the same calls except for SetColor, with neither
\* SetColorPrefix nor SetInteractive among them, make the same writes in
\* every emission, hold the same buffer, and return the same from GetBuffer.
C20_ColorBlind ==
    /\ lastOp \in Emissions => writes = twinOut.writes
    /\ lastOp = "GetBuffer" => ret = twinOut.ret
    /\ bufferData = twin.bufferData
    /\ Handles = twin.h

\* C20 witness: an info emission, colorized and buffered, made while the
\* color flags of the two Logs differ.
C20_Witness ==
    /\ lastOp = "StandardInfo"
    /\ flagColor # twin.flagColor
    /\ Len(writes) = 1
    /\ \E i \in 1..Len(writes[1].line) : writes[1].line[i] = EscGreen
    /\ Len(bufferData) = 2

\* --------------------------------------------- claims: goroutines

\* The lines the goroutines that printed would have buffered.
RacePayload(t) == Sprintf(race.msg[t].format, race.msg[t].v)
Printed == IF race.saw THEN Emitters ELSE Emitters \ {"Verbose"}

\* C19: once all goroutines are done, every emission that passed its gate has
\* written its line, but the buffer, when enabled, holds the old lines and
\* then between one and all of the new lines, the last one whole and each of
\* them one of the lines emitted (appends may be lost, never invented); when
\* disabled it is untouched. The gated emission saw the flag before or after
\* the setter, emitted exactly if it saw it set, and the setter's value stays.
C19_RaceOutcomes ==
    Done =>
      /\ Len(race.writes) = Cardinality(Printed)
      /\ IsPrefix(race.base, race.L.bufferData)
      /\ LET grown == Len(race.L.bufferData) - Len(race.base)
         IN /\ IF race.L.flagEnableBuffer
               THEN grown \in 1..Cardinality(Printed)
               ELSE grown = 0
            /\ \A i \in (Len(race.base) + 1)..Len(race.L.bufferData) :
                   \E t \in Printed : race.L.bufferData[i] = RacePayload(t)
      /\ race.saw \in {race.old, race.new}
      /\ race.L.flagVerbose = race.new

\* C19 witness: a lost append. Both unconditional emissions wrote their line
\* with the buffer enabled, the gated one saw the old, clear flag although
\* the setter set it, and the buffer grew by one line only.
C19_Witness ==
    /\ Done
    /\ race.L.flagEnableBuffer
    /\ ~race.old /\ race.new /\ ~race.saw
    /\ Len(race.writes) = 2
    /\ Len(race.L.bufferData) = Len(race.base) + 1

====
